---- MODULE Spec2Model ----
(***************************************************************************)
(* The builder command of the lifecycle (cmd/lifecycle/builder.go) and the *)
(* API version type it uses (api/version.go).                              *)
(*                                                                         *)
(* One build invocation is a chain of processes: the process the platform  *)
(* starts and, through buildAsSubProcess, the "builder" children it        *)
(* re-executes.  A parent blocks in c.Run() while its child runs, so at    *)
(* most one process of the chain takes steps at any time.                  *)
(***************************************************************************)
EXTENDS Integers, Sequences, FiniteSets, TLC

(***************************************************************************)
(* Bounds of the model.                                                    *)
(***************************************************************************)
\* plugins per group file
MaxGroupLen == 2
\* processes in one chain of re-executions
MaxDepth == 3
\* length of the texts given to NewVersion
MaxTextLen == 4
\* largest Major and Minor of the versions given to IsSupersetOf
MaxVersionField == 3
\* changes another process makes to the stack-group file during one invocation
MaxFsChanges == 1

(***************************************************************************)
(* api/version.go                                                          *)
(***************************************************************************)
Digits == <<"0", "1", "2", "3", "4", "5", "6", "7", "8", "9">>

IsDigit(c) == \E i \in 1..Len(Digits) : Digits[i] = c

DigitVal(c) == (CHOOSE i \in 1..Len(Digits) : Digits[i] = c) - 1

\* strconv.ParseUint(s, 10, 64) of a non-empty run of digits
RECURSIVE ParseUintAcc(_, _)
ParseUintAcc(s, acc) ==
    IF s = <<>> THEN acc ELSE ParseUintAcc(Tail(s), acc * 10 + DigitVal(Head(s)))

\* the digits of 2^64 - 1
MaxUint64 ==
    <<"1", "8", "4", "4", "6", "7", "4", "4", "0", "7", "3", "7", "0", "9", "5", "5",
      "1", "6", "1", "5">>

RECURSIVE StripZeros(_)
StripZeros(s) ==
    IF s # <<>> /\ Head(s) = "0" THEN StripZeros(Tail(s)) ELSE s

\* a <= b for two runs of digits of the same length
RECURSIVE DigitsLeq(_, _)
DigitsLeq(a, b) ==
    IF a = <<>> THEN TRUE
    ELSE IF DigitVal(Head(a)) # DigitVal(Head(b)) THEN DigitVal(Head(a)) < DigitVal(Head(b))
    ELSE DigitsLeq(Tail(a), Tail(b))

\* the value of the run of digits s is below 2^64
FitsUint64(s) ==
    LET t == StripZeros(s)
    IN  Len(t) < Len(MaxUint64) \/ (Len(t) = Len(MaxUint64) /\ DigitsLeq(t, MaxUint64))

\* ParseUint fails with a range error on a value of 2^64 or more
ParseUint(s) ==
    IF FitsUint64(s) THEN [ok |-> TRUE, n |-> ParseUintAcc(s, 0)]
    ELSE [ok |-> FALSE, n |-> 0]

\* length of the longest prefix of s made of digits
RECURSIVE DigitRun(_)
DigitRun(s) ==
    IF s # <<>> /\ IsDigit(Head(s)) THEN 1 + DigitRun(Tail(s)) ELSE 0

Drop(s, n) == SubSeq(s, n + 1, Len(s))

\* the regex without its optional leading v
RegexMatchNoV(v) ==
    LET n1 == DigitRun(v)
        s2 == Drop(v, n1)
        s3 == IF s2 # <<>> /\ Head(s2) = "." THEN Tail(s2) ELSE s2
    IN  IF n1 >= 1 /\ DigitRun(s3) = Len(s3)
        THEN [ok |-> TRUE, major |-> SubSeq(v, 1, n1), minor |-> s3]
        ELSE [ok |-> FALSE, major |-> <<>>, minor |-> <<>>]

\* regex ^v?(\d+)\.?(\d*)$ : the submatches of the only possible match
RegexMatch(v) ==
    LET s1 == IF v # <<>> /\ Head(v) = "v" THEN Tail(v) ELSE v
        n1 == DigitRun(s1)
        s2 == Drop(s1, n1)
        s3 == IF s2 # <<>> /\ Head(s2) = "." THEN Tail(s2) ELSE s2
    IN  IF n1 >= 1 /\ DigitRun(s3) = Len(s3)
        THEN [ok |-> TRUE, major |-> SubSeq(s1, 1, n1), minor |-> s3]
        ELSE [ok |-> FALSE, major |-> <<>>, minor |-> <<>>]

NoVersion == [Major |-> 0, Minor |-> 0]

NewVersion(v) ==
    LET m == RegexMatch(v)
    IN  IF ~m.ok THEN [ok |-> FALSE, v |-> NoVersion]
        ELSE LET major == ParseUint(m.major)
                 minor == IF m.minor = <<>> THEN [ok |-> TRUE, n |-> 0]
                          ELSE ParseUint(m.minor)
             IN  IF ~major.ok \/ ~minor.ok THEN [ok |-> FALSE, v |-> NoVersion]
                 ELSE [ok |-> TRUE, v |-> [Major |-> major.n, Minor |-> minor.n]]

Compare(v, o) ==
    IF v.Major # o.Major /\ v.Major < o.Major THEN -1
    ELSE IF v.Major # o.Major /\ v.Major > o.Major THEN 1
    ELSE IF v.Minor # o.Minor /\ v.Minor < o.Minor THEN -1
    ELSE IF v.Minor # o.Minor /\ v.Minor > o.Minor THEN 1
    ELSE 0

Equal(v, o) == Compare(v, o) = 0

\* IsSupersetOf asking for a larger minor
IsSupersetOfStrict(v, o) ==
    IF v.Major = 0 THEN Equal(v, o)
    ELSE v.Major = o.Major /\ v.Minor > o.Minor

IsSupersetOf(v, o) ==
    IF v.Major = 0 THEN Equal(v, o)
    ELSE v.Major = o.Major /\ v.Minor >= o.Minor

(***************************************************************************)
(* Values of cmd/lifecycle/builder.go                                      *)
(***************************************************************************)
\* exit codes of package cmd, by name
CodeSuccess == "CodeSuccess"
CodeFailed == "CodeFailed"
CodeInvalidArgs == "CodeInvalidArgs"
CodeFailedBuildWithErrors == "CodeFailedBuildWithErrors"
CodeBuildError == "CodeBuildError"
\* the exit status of a Go program that panicked
CodePanic == "CodePanic"

Codes ==
    {CodeSuccess, CodeFailed, CodeInvalidArgs, CodeFailedBuildWithErrors,
     CodeBuildError, CodePanic}

\* error values: nil, a classified *cmd.ErrorFail, any other (bare) error, and
\* the pseudo-error of a process that panicked
Nil == [kind |-> "nil", code |-> CodeSuccess, action |-> "", cause |-> ""]

FailErrCode(cause, code, action) ==
    [kind |-> "fail", code |-> code, action |-> action, cause |-> cause]

FailErr(cause, action) == FailErrCode(cause, CodeFailed, action)

\* an error that did not come from cmd.FailErr or cmd.FailErrCode; code is the
\* exit status an *exec.ExitError carries, CodeSuccess when it carries none
BareErr(cause, code) ==
    [kind |-> "bare", code |-> code, action |-> "", cause |-> cause]

Panicked == [kind |-> "panic", code |-> CodePanic, action |-> "", cause |-> "panic"]

\* the exit status of a process whose command returned err
ExitCode(err) ==
    CASE err.kind = "nil" -> CodeSuccess
      [] err.kind = "fail" -> err.code
      [] err.kind = "panic" -> CodePanic
      [] OTHER -> CodeFailed

\* identities
Root == [uid |-> 0, gid |-> 0]
User == [uid |-> 1000, gid |-> 1001]
Identities == {Root, User}

\* priv.IsPrivileged of a process running as id
IsPrivileged(id) == id.uid = 0

\* plugin API versions found in group files, and the buildpack API the
\* lifecycle supports
PluginAPIs == {[Major |-> 1, Minor |-> 0], [Major |-> 1, Minor |-> 2]}
SupportedBuildpackAPI == [Major |-> 1, Minor |-> 1]

RECURSIVE SeqsUpTo(_, _)
SeqsUpTo(S, n) ==
    IF n = 0 THEN {<<>>}
    ELSE LET shorter == SeqsUpTo(S, n - 1)
         IN  shorter \cup {Append(s, x) : s \in shorter, x \in S}

\* a lifecycle.BuildpackGroup: the declared API of each of its plugins
Groups == SeqsUpTo(PluginAPIs, MaxGroupLen)

\* what a group path holds: nothing, a document ReadGroup rejects, or a group
Absent == [st |-> "absent", group |-> <<>>]
Malformed == [st |-> "malformed", group |-> <<>>]
GroupFiles == {Absent, Malformed} \cup {[st |-> "present", group |-> g] : g \in Groups}

PlanFiles == {"absent", "malformed", "ok"}

\* values of the platformAPI field: not supplied, and a supplied version
PlatformAPIs == {<<>>, <<"0", ".", "4">>}
(***************************************************************************)
(* State                                                                   *)
(***************************************************************************)
VARIABLES
    procs,           \* the chain of processes, the platform's process first
    groupFile,       \* what groupPath holds
    stackGroupFile,  \* what stackGroupPath holds
    planFile,        \* what planPath holds
    platformAPI,     \* buildArgs.platformAPI
    ba,              \* buildArgs.uid and buildArgs.gid
    entry,           \* "builder": the builder command; "build": a caller of
                     \* buildArgs.build in package main; "api": a caller of
                     \* package api
    call,            \* the call of package api being made, and its results
    fsChanges        \* changes made to the stack-group file by other processes

vars ==
    <<procs, groupFile, stackGroupFile, planFile, platformAPI, ba, entry, call,
      fsChanges>>

env == <<groupFile, stackGroupFile, planFile, platformAPI, ba, entry, call, fsChanges>>

\* no call of package api
NoCall ==
    [op |-> "none", done |-> FALSE, v |-> NoVersion, o |-> NoVersion, text |-> <<>>,
     res |-> FALSE, ok |-> FALSE, out |-> NoVersion,
     str |-> <<>>, ok2 |-> FALSE, out2 |-> NoVersion]

\* A process: where it is (pc), the identity it runs as (id) and was started
\* as (start), what readData
\* gave Exec, what it returned (err, exitCode), and what it has done so far.
NewProc(pc, id) ==
    [pc |-> pc, id |-> id, start |-> id, group |-> <<>>, stackGroup |-> <<>>,
     err |-> Nil, exitCode |-> CodeSuccess,
     stackResult |-> "none",  \* what builder.StackBuild returned
     stackIds |-> {},         \* identities builder.StackBuild ran as
     delegations |-> 0,       \* calls of buildAsSubProcess
     runs |-> 0,              \* calls of c.Run
     creds |-> {},            \* Credential values bound to a child
     drops |-> 0,             \* priv.RunAs calls that succeeded
     envLoads |-> 0,          \* priv.SetEnvironmentForUser calls that succeeded
     buildResult |-> "none",  \* what builder.Build returned
     buildIds |-> {},         \* identities builder.Build ran as
     mdWrites |-> 0]          \* lifecycle.WriteTOML calls that succeeded

\* what builder.StackBuild and builder.Build return: nil, a *lifecycle.Error
\* of type ErrTypeBuildpack, a *lifecycle.Error of another type, another error
Outcomes == {"ok", "ErrTypeBuildpack", "ErrTypeFailed", "plain"}

(***************************************************************************)
(* Helpers of the handlers                                                 *)
(***************************************************************************)
\* os.Stat(path) succeeded
Stat(file) == file.st # "absent"

\* lifecycle.ReadGroup
ReadGroup(file) ==
    IF file.st = "present" THEN [ok |-> TRUE, group |-> file.group]
    ELSE [ok |-> FALSE, group |-> <<>>]

\* toml.DecodeFile(planPath, &plan) succeeded
DecodePlan(file) == file = "ok"

\* readData without the os.Stat tests
readDataNoStat(gf, sf, pf) ==
    LET g == ReadGroup(gf)
        s == ReadGroup(sf)
    IN  IF ~g.ok
        THEN [group |-> <<>>, stackGroup |-> <<>>,
              err |-> FailErr("read group", "read buildpack group")]
        ELSE IF ~s.ok
        THEN [group |-> g.group, stackGroup |-> <<>>,
              err |-> FailErr("read group", "read stack buildpack group")]
        ELSE IF ~DecodePlan(pf)
        THEN [group |-> <<>>, stackGroup |-> <<>>,
              err |-> FailErr("decode plan", "parse detect plan")]
        ELSE [group |-> g.group, stackGroup |-> s.group, err |-> Nil]

readData(gf, sf, pf) ==
    LET g == IF Stat(gf) THEN ReadGroup(gf) ELSE [ok |-> TRUE, group |-> <<>>]
        s == IF Stat(sf) THEN ReadGroup(sf) ELSE [ok |-> TRUE, group |-> <<>>]
    IN  IF ~g.ok
        THEN [group |-> <<>>, stackGroup |-> <<>>,
              err |-> FailErr("read group", "read buildpack group")]
        ELSE IF ~s.ok
        THEN [group |-> g.group, stackGroup |-> <<>>,
              err |-> FailErr("read group", "read stack buildpack group")]
        ELSE IF ~DecodePlan(pf)
        THEN [group |-> <<>>, stackGroup |-> <<>>,
              err |-> FailErr("decode plan", "parse detect plan")]
        ELSE [group |-> g.group, stackGroup |-> s.group, err |-> Nil]

\* what Args returns
ArgsErr(nargs) ==
    IF nargs # 0
    THEN FailErrCode("received unexpected arguments", CodeInvalidArgs, "parse arguments")
    ELSE Nil

\* Privileges without its guard
PrivilegesErrNoGuard(stackGroup, id) == Nil

\* Privileges reporting the refusal with the code Args uses
PrivilegesErrInvalidArgs(stackGroup, id) ==
    IF Len(stackGroup) = 0 /\ IsPrivileged(id)
    THEN FailErrCode("refusing to run as root", CodeInvalidArgs, "build")
    ELSE Nil

\* what Privileges returns once readData succeeded
PrivilegesErr(stackGroup, id) ==
    IF Len(stackGroup) = 0 /\ IsPrivileged(id)
    THEN FailErr("refusing to run as root", "build")
    ELSE Nil

\* where Exec goes once readData succeeded
ExecTarget(stackGroup) ==
    IF Len(stackGroup) > 0 THEN "buildAll" ELSE "buildAsSubProcess"

\* verifyBuildpackApis: the first plugin the supported API is no superset of
verifyBuildpackApis(group) ==
    IF \E i \in 1..Len(group) : ~IsSupersetOf(SupportedBuildpackAPI, group[i])
    THEN FailErrCode("incompatible buildpack api", CodeInvalidArgs, "verify buildpack api")
    ELSE Nil

\* the two checks that open buildAll
buildAllVerify(group, stackGroup) ==
    IF verifyBuildpackApis(group) # Nil THEN verifyBuildpackApis(group)
    ELSE verifyBuildpackApis(stackGroup)

\* stackBuild dropping every error that is no *lifecycle.Error
stackBuildErrSwallow(outcome) ==
    CASE outcome = "ErrTypeBuildpack" ->
            FailErrCode("cause", CodeFailedBuildWithErrors, "stack-build")
      [] outcome = "ErrTypeFailed" -> FailErrCode(outcome, CodeBuildError, "stack-build")
      [] OTHER -> Nil

\* stackBuild without the test of the error's type
stackBuildErrOneCode(outcome) ==
    IF outcome = "ok" THEN Nil
    ELSE FailErrCode(outcome, CodeBuildError, "stack-build")

\* what stackBuild returns for what builder.StackBuild returned
stackBuildErr(outcome) ==
    CASE outcome = "ok" -> Nil
      [] outcome = "ErrTypeBuildpack" ->
            FailErrCode("cause", CodeFailedBuildWithErrors, "stack-build")
      [] OTHER -> FailErrCode(outcome, CodeBuildError, "stack-build")

\* buildAll delegating whatever the app group holds
AfterStackBuildAlways(group) == "buildAsSubProcess"

\* where buildAll goes after a stack build that succeeded
AfterStackBuild(group) ==
    IF Len(group) > 0 THEN "buildAsSubProcess" ELSE "return"

\* the Credential buildAsSubProcess binds to the child
Credential(args) == [uid |-> args.uid, gid |-> args.gid]

\* what c.Run returns for a child that exited with code
RunErr(code) ==
    IF code = CodeSuccess THEN Nil ELSE BareErr("exit status", code)

\* build taking every return of builder.Build for success
buildErrIgnored(outcome) == Nil

\* what build returns for what builder.Build returned
buildErr(outcome) ==
    CASE outcome = "ok" -> Nil
      [] outcome = "ErrTypeBuildpack" ->
            FailErrCode("cause", CodeFailedBuildWithErrors, "build")
      [] OTHER -> FailErrCode(outcome, CodeBuildError, "build")

\* a child can be started with a Credential only by a process that may call
\* setgroups, setgid and setuid
MayBindCredential(id) == IsPrivileged(id)

\* priv.RunAs called with its arguments swapped
RunAsIdSwapped(args) == [uid |-> args.gid, gid |-> args.uid]

\* the identity priv.RunAs(ba.uid, ba.gid) gives the process
RunAsId(args) == [uid |-> args.uid, gid |-> args.gid]

\* priv.RunAs(uid, gid) can succeed for a process running as id
MayRunAs(id, args) == IsPrivileged(id) \/ id = RunAsId(args)

(***************************************************************************)
(* The handlers, as steps of process d                                     *)
(***************************************************************************)
At(d, pc) == d \in 1..Len(procs) /\ procs[d].pc = pc

Exited(p, err) == [p EXCEPT !.pc = "exited", !.err = err, !.exitCode = ExitCode(err)]

Return(d, err) == procs' = [procs EXCEPT ![d] = Exited(procs[d], err)]

Goto(d, pc) == procs' = [procs EXCEPT ![d].pc = pc]

\* the platform may pass stray arguments; buildAsSubProcess passes flags only
Args(d) ==
    /\ At(d, "Args")
    /\ \E nargs \in (IF d = 1 THEN {0, 1} ELSE {0}) :
          IF ArgsErr(nargs) # Nil THEN Return(d, ArgsErr(nargs))
          ELSE Goto(d, "Privileges")
    /\ UNCHANGED env

Privileges(d) ==
    /\ At(d, "Privileges")
    /\ LET r == readData(groupFile, stackGroupFile, planFile)
       IN  IF r.err # Nil THEN Return(d, r.err)
           ELSE IF PrivilegesErr(r.stackGroup, procs[d].id) # Nil
           THEN Return(d, PrivilegesErr(r.stackGroup, procs[d].id))
           ELSE Goto(d, "Exec")
    /\ UNCHANGED env

Exec(d) ==
    /\ At(d, "Exec")
    /\ LET r == readData(groupFile, stackGroupFile, planFile)
       IN  IF r.err # Nil THEN Return(d, r.err)
           ELSE procs' = [procs EXCEPT ![d].group = r.group,
                                       ![d].stackGroup = r.stackGroup,
                                       ![d].pc = ExecTarget(r.stackGroup)]
    /\ UNCHANGED env

\* buildAll, lines 83-89
BuildAllVerify(d) ==
    /\ At(d, "buildAll")
    /\ LET err == buildAllVerify(procs[d].group, procs[d].stackGroup)
       IN  IF err # Nil THEN Return(d, err) ELSE Goto(d, "createBuilder")
    /\ UNCHANGED env

\* buildAll, lines 91-94
CreateBuilder(d) ==
    /\ At(d, "createBuilder")
    /\ \E snapshotter \in BOOLEAN :
          IF ~snapshotter THEN Return(d, BareErr("new snapshotter", CodeSuccess))
          ELSE IF ~NewVersion(platformAPI).ok THEN Return(d, Panicked)
          ELSE Goto(d, "stackBuild")
    /\ UNCHANGED env

\* buildAll, lines 96-105 up to the call of buildAsSubProcess
StackBuild(d) ==
    /\ At(d, "stackBuild")
    /\ \E outcome \in Outcomes :
          LET p == [procs[d] EXCEPT !.stackResult = outcome,
                                    !.stackIds = @ \cup {procs[d].id}]
          IN  IF stackBuildErr(outcome) # Nil
              THEN procs' = [procs EXCEPT ![d] = Exited(p, stackBuildErr(outcome))]
              ELSE IF AfterStackBuild(p.group) = "return"
              THEN procs' = [procs EXCEPT ![d] = Exited(p, Nil)]
              ELSE procs' = [procs EXCEPT ![d] = [p EXCEPT !.pc = AfterStackBuild(p.group)]]
    /\ UNCHANGED env

\* buildAsSubProcess up to the moment c.Run blocks or fails
BuildAsSubProcess(d) ==
    /\ At(d, "buildAsSubProcess")
    /\ LET p == [procs[d] EXCEPT !.delegations = @ + 1]
           q == [p EXCEPT !.runs = @ + 1, !.creds = @ \cup {Credential(ba)}]
       IN  \/ \* os.Executable fails
              procs' = [procs EXCEPT ![d] = Exited(p, BareErr("os.Executable", CodeSuccess))]
           \/ \* the child cannot be started
              procs' = [procs EXCEPT ![d] = Exited(q, BareErr("start", CodeSuccess))]
           \/ \* the child runs and the parent waits for it
              /\ MayBindCredential(p.id)
              /\ d < MaxDepth
              /\ procs' = Append([procs EXCEPT ![d] = [q EXCEPT !.pc = "waiting"]],
                                 NewProc("Args", Credential(ba)))
    /\ UNCHANGED env

\* c.Run returns: the child has exited, and so buildAsSubProcess, buildAll and
\* Exec return
ChildExit(d) ==
    /\ At(d, "waiting")
    /\ At(d + 1, "exited")
    /\ Return(d, RunErr(procs[d + 1].exitCode))
    /\ UNCHANGED env

\* build going on after a priv.RunAs that failed
RunAsUnchecked(d) ==
    /\ At(d, "build")
    /\ \/ /\ MayRunAs(procs[d].id, ba)
          /\ procs' = [procs EXCEPT ![d].id = RunAsId(ba), ![d].drops = @ + 1,
                                    ![d].pc = "SetEnvironmentForUser"]
       \/ Goto(d, "SetEnvironmentForUser")
    /\ UNCHANGED env

\* build, lines 144-146
RunAs(d) ==
    /\ At(d, "build")
    /\ \/ /\ MayRunAs(procs[d].id, ba)
          /\ procs' = [procs EXCEPT ![d].id = RunAsId(ba), ![d].drops = @ + 1,
                                    ![d].pc = "SetEnvironmentForUser"]
       \/ Return(d, FailErr("setresuid", "exec as user"))
    /\ UNCHANGED env

\* build, lines 147-149
SetEnvironmentForUser(d) ==
    /\ At(d, "SetEnvironmentForUser")
    /\ \/ procs' = [procs EXCEPT ![d].envLoads = @ + 1, ![d].pc = "Build"]
       \/ Return(d, FailErr("lookup user", "set environment for user"))
    /\ UNCHANGED env

\* build, lines 150-158
Build(d) ==
    /\ At(d, "Build")
    /\ \E outcome \in Outcomes :
          LET p == [procs[d] EXCEPT !.buildResult = outcome,
                                    !.buildIds = @ \cup {procs[d].id}]
          IN  IF buildErr(outcome) # Nil
              THEN procs' = [procs EXCEPT ![d] = Exited(p, buildErr(outcome))]
              ELSE procs' = [procs EXCEPT ![d] = [p EXCEPT !.pc = "WriteTOML"]]
    /\ UNCHANGED env

\* build, lines 159-162
WriteTOML(d) ==
    /\ At(d, "WriteTOML")
    /\ \/ procs' = [procs EXCEPT ![d] = Exited([procs[d] EXCEPT !.mdWrites = @ + 1], Nil)]
       \/ Return(d, FailErr("write", "write build metadata"))
    /\ UNCHANGED env

(***************************************************************************)
(* The specification                                                       *)
(***************************************************************************)
\* the builder command, started by the platform
InitBuilder ==
    /\ entry = "builder"
    /\ groupFile \in GroupFiles
    /\ stackGroupFile \in GroupFiles
    /\ planFile \in PlanFiles
    /\ platformAPI \in PlatformAPIs
    /\ ba \in Identities
    /\ call = NoCall
    /\ fsChanges = 0
    /\ \E id \in Identities : procs = <<NewProc("Args", id)>>

\* buildArgs.build, called with a builder its caller made
InitBuild ==
    /\ entry = "build"
    /\ groupFile = Absent
    /\ stackGroupFile = Absent
    /\ planFile = "ok"
    /\ platformAPI = <<"0", ".", "4">>
    /\ ba \in Identities
    /\ call = NoCall
    /\ fsChanges = 0
    /\ \E id \in Identities : procs = <<NewProc("build", id)>>

Init == InitBuilder \/ InitBuild

Next ==
    \E d \in 1..MaxDepth :
        \/ Args(d)
        \/ Privileges(d)
        \/ Exec(d)
        \/ BuildAllVerify(d)
        \/ CreateBuilder(d)
        \/ StackBuild(d)
        \/ BuildAsSubProcess(d)
        \/ ChildExit(d)
        \/ RunAs(d)
        \/ SetEnvironmentForUser(d)
        \/ Build(d)
        \/ WriteTOML(d)

Spec == Init /\ [][Next]_vars

(***************************************************************************)
(* Calls of package api, on inputs drawn from bounded sets                 *)
(***************************************************************************)
\* the decimal digits of n, as fmt's %d prints them
RECURSIVE FormatUint(_)
FormatUint(n) ==
    IF n < 10 THEN <<Digits[n + 1]>>
    ELSE Append(FormatUint(n \div 10), Digits[(n % 10) + 1])

\* Version.String with the dot left out
StringNoDot(v) == FormatUint(v.Major) \o FormatUint(v.Minor)

\* Version.String
String(v) == FormatUint(v.Major) \o <<".">> \o FormatUint(v.Minor)

\* Version.MarshalText
MarshalText(v) == String(v)

\* Version.UnmarshalText called on v: its error, and v afterwards
UnmarshalText(v, text) ==
    LET r == NewVersion(text)
    IN  IF r.ok THEN [ok |-> TRUE, v |-> r.v] ELSE [ok |-> FALSE, v |-> v]

Versions == [Major : 0..MaxVersionField, Minor : 0..MaxVersionField]

Alphabet == {"v", "0", "1", "2", ".", "a"}

Nines(n) == [i \in 1..n |-> "9"]

\* texts beyond MaxTextLen or Alphabet: examples of the documentation, and
\* digit runs around 2^64
LongTexts ==
    { <<"1", ".", "2", ".", "3">>, <<"v", "1", ".", "2", "a">>, <<"a", "b", "c">>,
      Nines(Len(MaxUint64)), <<"v">> \o Nines(Len(MaxUint64)),
      <<"1", ".">> \o Nines(Len(MaxUint64)),
      <<"1", "8", "4", "4", "6", "7", "4", "4", "0", "7", "3", "7", "0", "9", "5", "5",
        "1", "6", "1", "6">>,
      <<"0", "0", "0", "0", "0", "0", "0", "0", "0", "0", "0", "0", "0", "0", "0", "0",
        "0", "0", "0", "0", "1", "2">> }

Texts == SeqsUpTo(Alphabet, MaxTextLen) \cup LongTexts

InitVersion ==
    /\ entry = "api"
    /\ procs = <<>>
    /\ groupFile = Absent
    /\ stackGroupFile = Absent
    /\ planFile = "ok"
    /\ platformAPI = <<>>
    /\ ba = Root
    /\ fsChanges = 0
    /\ \/ \E v \in Versions, o \in Versions :
             call = [NoCall EXCEPT !.op = "IsSupersetOf", !.v = v, !.o = o]
       \/ \E text \in Texts :
             call = [NoCall EXCEPT !.op = "NewVersion", !.text = text]

unchangedByApi ==
    <<procs, groupFile, stackGroupFile, planFile, platformAPI, ba, entry, fsChanges>>

\* call.v.IsSupersetOf(call.o)
CallIsSupersetOf ==
    /\ call.op = "IsSupersetOf"
    /\ ~call.done
    /\ call' = [call EXCEPT !.done = TRUE, !.res = IsSupersetOf(call.v, call.o)]
    /\ UNCHANGED unchangedByApi

\* NewVersion(call.text)
CallNewVersion ==
    /\ call.op = "NewVersion"
    /\ ~call.done
    /\ call' = [call EXCEPT !.done = TRUE, !.ok = NewVersion(call.text).ok,
                            !.out = NewVersion(call.text).v]
    /\ UNCHANGED unchangedByApi

\* the version NewVersion returned is marshalled, and the text unmarshalled
\* into a zero Version
CallMarshalUnmarshal ==
    /\ call.op = "NewVersion"
    /\ call.done
    /\ call.ok
    /\ LET text == MarshalText(call.out)
           r == UnmarshalText(NoVersion, text)
       IN  call' = [call EXCEPT !.op = "UnmarshalText", !.str = text,
                               !.ok2 = r.ok, !.out2 = r.v]
    /\ UNCHANGED unchangedByApi

NextVersion == CallIsSupersetOf \/ CallNewVersion \/ CallMarshalUnmarshal

SpecVersion == InitVersion /\ [][NextVersion]_vars

(***************************************************************************)
(* The builder command while another process writes the stack-group path   *)
(***************************************************************************)
\* another process creates, removes or rewrites the stack-group file after
\* some process of the chain loaded it in Privileges and before it loads it
\* again in Exec
FsChange ==
    /\ fsChanges < MaxFsChanges
    /\ \E d \in 1..Len(procs) : procs[d].pc = "Exec"
    /\ \E file \in GroupFiles \ {stackGroupFile} : stackGroupFile' = file
    /\ fsChanges' = fsChanges + 1
    /\ UNCHANGED <<procs, groupFile, planFile, platformAPI, ba, entry, call>>

NextRace == Next \/ FsChange

SpecRace == Init /\ [][NextRace]_vars

(***************************************************************************)
(* Properties                                                              *)
(***************************************************************************)
Procs == 1..Len(procs)

\* process p has run Privileges (and so readData)
PrivilegesRan(p) ==
    /\ entry = "builder"
    /\ p.pc \notin {"Args", "Privileges"}
    /\ p.err.action # "parse arguments"

\* process p has run Exec up to its dispatch
ExecDispatched(p) ==
    /\ entry = "builder"
    /\ p.pc \notin {"Args", "Privileges", "Exec"}
    /\ p.err.action \notin {"parse arguments", "read buildpack group",
                            "read stack buildpack group", "parse detect plan"}
    /\ p.err.cause # "refusing to run as root"

\* the three files load
LoadOk ==
    /\ groupFile.st # "malformed"
    /\ stackGroupFile.st # "malformed"
    /\ planFile = "ok"

Incompatible(group) ==
    \E i \in 1..Len(group) : ~IsSupersetOf(SupportedBuildpackAPI, group[i])

\* no process at or below d in the chain has run a build step
NoBuildStep(d) ==
    /\ procs[d].stackIds = {}
    /\ procs[d].buildIds = {}
    /\ procs[d].delegations = 0
    /\ procs[d].runs = 0
    /\ Len(procs) = d

(* C1: whatever the two groups hold, an incompatible plugin in either makes   *)
(* the invocation fail before StackBuild, the delegate or Build is invoked.   *)
(* This is the claim as stated; Exec with an empty stack group violates it.   *)
C1_AllPluginsVerifiedBeforeAnyBuildStep ==
    \A d \in Procs :
        (/\ entry = "builder"
         /\ LoadOk
         /\ Incompatible(groupFile.group) \/ Incompatible(stackGroupFile.group))
        => /\ NoBuildStep(d)
           /\ procs[d].pc = "exited" => procs[d].err # Nil

C3_StackBuildCompletesFirst ==
    \A d \in Procs :
        LET p == procs[d]
        IN  (ExecDispatched(p) /\ Len(p.stackGroup) > 0)
            => /\ (p.delegations > 0 \/ p.runs > 0 \/ p.buildIds # {} \/ Len(procs) > d)
                  => p.stackResult = "ok"
               /\ p.stackResult \notin {"none", "ok"}
                  => /\ p.pc = "exited"
                     /\ p.err.kind = "fail"
                     /\ p.delegations = 0
                     /\ p.runs = 0
                     /\ p.buildIds = {}
                     /\ Len(procs) = d

C3_Witness ==
    \E d \in Procs :
        /\ Len(procs[d].stackGroup) > 0
        /\ Len(procs[d].group) > 0
        /\ procs[d].stackResult = "plain"
        /\ procs[d].pc = "exited"
        /\ procs[d].delegations = 0

(* C4: a privileged process whose stack group is empty is refused by          *)
(* Privileges ("refusing to run as root") and runs no StackBuild, no Build    *)
(* and no delegate.                                                           *)
C4_RefusesRootWithoutStackGroup ==
    \A d \in Procs :
        LET p == procs[d]
        IN  (/\ PrivilegesRan(p)
             /\ LoadOk
             /\ stackGroupFile.group = <<>>
             /\ IsPrivileged(p.start))
            => /\ p.pc = "exited"
               /\ p.err.kind = "fail"
               /\ p.err.cause = "refusing to run as root"
               /\ NoBuildStep(d)

C4_Witness ==
    \E d \in Procs :
        /\ IsPrivileged(procs[d].start)
        /\ Len(groupFile.group) > 0
        /\ procs[d].pc = "exited"
        /\ procs[d].err.cause = "refusing to run as root"
        /\ NoBuildStep(d)

(* C5: after a StackBuild that succeeded the process calls the delegate once  *)
(* if the app group is non-empty and never if it is empty; the child is bound *)
(* to the uid and gid of buildArgs and starts under them; the parent never    *)
(* calls priv.RunAs.                                                          *)
C5_DelegatesOnceWithConfiguredCredential ==
    \A d \in Procs :
        LET p == procs[d]
        IN  p.stackResult = "ok"
            => /\ p.pc # "buildAsSubProcess"
                  => p.delegations = (IF Len(p.group) > 0 THEN 1 ELSE 0)
               /\ p.delegations <= 1
               /\ p.runs <= p.delegations
               /\ \A c \in p.creds : c.uid = ba.uid /\ c.gid = ba.gid
               /\ Len(procs) > d
                  => /\ procs[d + 1].start.uid = ba.uid
                     /\ procs[d + 1].start.gid = ba.gid
                     /\ p.creds # {}
               /\ p.drops = 0
               /\ p.id = p.start

C5_Witness ==
    \E d \in Procs :
        /\ procs[d].stackResult = "ok"
        /\ Len(procs[d].group) > 0
        /\ procs[d].delegations = 1
        /\ Len(procs) > d
        /\ procs[d + 1].start = User
        /\ procs[d].id = Root

(* C6: an unprivileged process with an empty stack group builds in process:   *)
(* it never calls the delegate, and when it ends in Done it has dropped to    *)
(* the credential, loaded the environment, run Build and written the          *)
(* metadata.  This is the claim as stated; Exec calls buildAsSubProcess.      *)
C6_AppOnlyBuildsInProcess ==
    \A d \in Procs :
        LET p == procs[d]
        IN  (/\ ExecDispatched(p)
             /\ Len(p.stackGroup) = 0
             /\ ~IsPrivileged(p.start))
            => /\ p.delegations = 0
               /\ p.runs = 0
               /\ (p.pc = "exited" /\ p.err = Nil)
                  => /\ p.drops = 1
                     /\ p.envLoads = 1
                     /\ p.buildResult = "ok"
                     /\ p.mdWrites = 1

(* C7: a failure builder.StackBuild or builder.Build returns is reported as   *)
(* CodeFailedBuildWithErrors exactly when it is a *lifecycle.Error of type    *)
(* ErrTypeBuildpack and as CodeBuildError otherwise, under the stage's name,  *)
(* and the two codes differ.                                                  *)
C7_PluginFailureAndOtherFailureDiffer ==
    /\ CodeFailedBuildWithErrors # CodeBuildError
    /\ \A d \in Procs :
          LET p == procs[d]
              Reported(result, stage) ==
                  result \notin {"none", "ok"}
                  => /\ p.pc = "exited"
                     /\ p.err.kind = "fail"
                     /\ p.err.action = stage
                     /\ p.exitCode = p.err.code
                     /\ p.err.code = (IF result = "ErrTypeBuildpack"
                                      THEN CodeFailedBuildWithErrors
                                      ELSE CodeBuildError)
          IN  /\ Reported(p.stackResult, "stack-build")
              /\ Reported(p.buildResult, "build")

C7_Witness ==
    \E d \in Procs :
        /\ procs[d].stackResult = "ErrTypeFailed"
        /\ procs[d].exitCode = CodeBuildError

(* C8: what a process reports after its child exited is the child's outcome   *)
(* with its classification: nil for a child that succeeded, a classified      *)
(* error with the child's code for a child that exited with the plugin        *)
(* failure or the build error code.  This is the claim as stated; c.Run's     *)
(* error is returned as it is.                                                *)
C8_ChildClassificationPropagates ==
    \A d \in Procs :
        (/\ d < Len(procs)
         /\ procs[d].pc = "exited"
         /\ procs[d + 1].exitCode \in {CodeSuccess, CodeFailedBuildWithErrors, CodeBuildError})
        => /\ procs[d].exitCode = procs[d + 1].exitCode
           /\ procs[d].err.code = procs[d + 1].exitCode
           /\ procs[d].err.kind = (IF procs[d + 1].exitCode = CodeSuccess
                                   THEN "nil" ELSE "fail")

(* C9: once readData has run, a malformed group or stack-group file or a plan *)
(* that is absent or malformed has made it fail with that file's error; an    *)
(* absent group or stack-group file has not, and Exec goes on with an empty   *)
(* group for it and the file's group otherwise.                               *)
C9_AbsentIsEmptyMalformedIsError ==
    \A d \in Procs :
        LET p == procs[d]
            LoadFailed(action) ==
                /\ p.pc = "exited"
                /\ p.err.kind = "fail"
                /\ p.err.action = action
        IN  PrivilegesRan(p)
            => /\ groupFile.st = "malformed" => LoadFailed("read buildpack group")
               /\ (groupFile.st # "malformed" /\ stackGroupFile.st = "malformed")
                  => LoadFailed("read stack buildpack group")
               /\ (groupFile.st # "malformed" /\ stackGroupFile.st # "malformed"
                   /\ planFile # "ok")
                  => LoadFailed("parse detect plan")
               /\ LoadOk
                  => /\ p.err.action \notin {"read buildpack group",
                                             "read stack buildpack group",
                                             "parse detect plan"}
                     /\ ExecDispatched(p)
                        => /\ p.group = (IF groupFile.st = "absent" THEN <<>>
                                         ELSE groupFile.group)
                           /\ p.stackGroup = (IF stackGroupFile.st = "absent" THEN <<>>
                                              ELSE stackGroupFile.group)

C9_Witness ==
    \E d \in Procs :
        /\ groupFile.st = "absent"
        /\ stackGroupFile.st = "present"
        /\ Len(stackGroupFile.group) > 0
        /\ planFile = "ok"
        /\ ExecDispatched(procs[d])
        /\ procs[d].group = <<>>
        /\ procs[d].stackGroup = stackGroupFile.group

C11_IsSupersetOfRule ==
    (call.op = "IsSupersetOf" /\ call.done)
    => LET sup == call.v
           req == call.o
       IN  /\ call.res
              <=> \/ sup.Major = 0 /\ req.Major = 0 /\ req.Minor = sup.Minor
                  \/ sup.Major # 0 /\ sup.Major = req.Major /\ sup.Minor >= req.Minor
           /\ (sup.Major = 0 /\ req.Minor < sup.Minor) => ~call.res
           /\ sup.Major # req.Major => ~call.res

C11_Witness ==
    /\ call.op = "IsSupersetOf"
    /\ call.done
    /\ call.v = [Major |-> 1, Minor |-> 1]
    /\ call.o = [Major |-> 1, Minor |-> 1]
    /\ call.res

\* text matches ^v?(\d+)(\.(\d*))?$, and the two runs of digits if it does
AllDigits(s) == \A i \in 1..Len(s) : s[i] \in {Digits[k] : k \in 1..Len(Digits)}

DocumentedMatch(text) ==
    LET t == IF Len(text) > 0 /\ text[1] = "v" THEN SubSeq(text, 2, Len(text)) ELSE text
        Ends(i) ==
            /\ AllDigits(SubSeq(t, 1, i))
            /\ \/ i = Len(t)
               \/ t[i + 1] = "." /\ AllDigits(SubSeq(t, i + 2, Len(t)))
    IN  IF \E i \in 1..Len(t) : Ends(i)
        THEN LET i == CHOOSE i \in 1..Len(t) : Ends(i)
             IN  [ok |-> TRUE, major |-> SubSeq(t, 1, i), minor |-> SubSeq(t, i + 2, Len(t))]
        ELSE [ok |-> FALSE, major |-> <<>>, minor |-> <<>>]

\* the number a run of digits writes, 0 for the empty run
RECURSIVE DecimalValue(_)
DecimalValue(s) ==
    IF s = <<>> THEN 0
    ELSE DecimalValue(SubSeq(s, 1, Len(s) - 1)) * 10 + DigitVal(s[Len(s)])

NewVersionCalled == call.op \in {"NewVersion", "UnmarshalText"} /\ call.done

(* C12, as stated: NewVersion succeeds exactly on the texts that match the    *)
(* documented pattern (an optional v, digits, then optionally a dot and       *)
(* digits) and fails on every other text; on success major is the             *)
(* value of the first run of digits and minor the value of the run after the  *)
(* dot, 0 when that run is missing or empty.                                  *)
C12_SucceedsExactlyOnMatches ==
    NewVersionCalled
    => LET m == DocumentedMatch(call.text)
       IN  /\ call.ok <=> m.ok
           /\ call.ok => /\ call.out.Major = DecimalValue(m.major)
                         /\ call.out.Minor = DecimalValue(m.minor)

(* C12, amended: NewVersion succeeds exactly on the texts that match the      *)
(* documented pattern and whose two runs of digits write numbers below 2^64,  *)
(* and fails on every other text; on success major is the value of the first  *)
(* run of digits and minor the value of the run after the dot, 0 when that    *)
(* run is missing or empty.                                                   *)
C12_SucceedsOnMatchesThatFit ==
    NewVersionCalled
    => LET m == DocumentedMatch(call.text)
       IN  /\ call.ok <=> (m.ok /\ FitsUint64(m.major) /\ FitsUint64(m.minor))
           /\ call.ok => /\ call.out.Major = DecimalValue(m.major)
                         /\ call.out.Minor = DecimalValue(m.minor)
           /\ call.text \in {<<"v", "1">>, <<"1">>}
              => call.ok /\ call.out = [Major |-> 1, Minor |-> 0]
           /\ call.text \in {<<"1", ".", "2">>, <<"v", "1", ".", "2">>}
              => call.ok /\ call.out = [Major |-> 1, Minor |-> 2]
           /\ call.text \in {<<"1", ".", "2", ".", "3">>, <<"a", "b", "c">>, <<>>}
              => ~call.ok

C12_Witness ==
    /\ NewVersionCalled
    /\ call.text = <<"v">> \o Nines(Len(MaxUint64))
    /\ DocumentedMatch(call.text).ok
    /\ ~call.ok

(* C13: for every Version v a successful NewVersion returned, NewVersion of   *)
(* v.String() succeeds and returns a Version Equal to v (same major, same     *)
(* minor); UnmarshalText of MarshalText of v restores v.                      *)
C13_RoundTrip ==
    (call.op = "UnmarshalText")
    => /\ call.str = String(call.out)
       /\ NewVersion(call.str).ok
       /\ Equal(NewVersion(call.str).v, call.out)
       /\ NewVersion(call.str).v.Major = call.out.Major
       /\ NewVersion(call.str).v.Minor = call.out.Minor
       /\ call.ok2
       /\ call.out2 = call.out

C13_Witness ==
    /\ call.op = "UnmarshalText"
    /\ call.text = <<"v", "1", "2">>
    /\ call.out = [Major |-> 12, Minor |-> 0]
    /\ call.str = <<"1", "2", ".", "0">>
    /\ call.out2 = call.out

(* C14, as stated: the child the delegate starts performs the unprivileged    *)
(* build stage and exits, and never itself launches a further delegate, so    *)
(* the chain of re-executed processes has length at most one.  The child is   *)
(* the builder command again, and so violates it.                             *)
C14_ChildBuildsAndNeverDelegates ==
    /\ Len(procs) <= 2
    /\ \A d \in Procs :
          d > 1 => /\ procs[d].delegations = 0
                   /\ procs[d].stackResult = "none"
                   /\ (procs[d].pc = "exited" /\ procs[d].err = Nil)
                      => procs[d].buildResult = "ok"

(* C15, as stated: builder.StackBuild is invoked only for a non-empty stack   *)
(* group and only by a process running with elevated privilege; a process     *)
(* that is not privileged and has a non-empty stack group never reaches it.   *)
(* Nothing in Privileges, Exec or buildAll tests this, and so it is violated. *)
C15_StackBuildOnlyWhenPrivileged ==
    \A d \in Procs :
        /\ procs[d].stackResult # "none" => Len(procs[d].stackGroup) > 0
        /\ \A id \in procs[d].stackIds : IsPrivileged(id)
        /\ (~IsPrivileged(procs[d].start) /\ Len(procs[d].stackGroup) > 0)
           => procs[d].pc # "stackBuild"

(* C16: in build the privilege drop happens at most once and before any       *)
(* plugin runs, in the order drop, load of the user's environment, plugins;   *)
(* when the drop or the load fails build returns a failure, no plugin has run *)
(* and no metadata is written.                                                *)
C16_DropThenEnvironmentThenBuild ==
    \A d \in Procs :
        LET p == procs[d]
        IN  /\ p.drops <= 1
            /\ p.envLoads <= p.drops
            /\ p.pc \in {"Build", "WriteTOML"} => p.drops = 1 /\ p.envLoads = 1
            /\ p.buildResult # "none" => p.drops = 1 /\ p.envLoads = 1
            /\ p.buildIds \subseteq {RunAsId(ba)}
            /\ (p.pc = "exited" /\ p.start.uid # p.id.uid) => p.drops = 1
            /\ (p.pc = "exited" /\ p.err.action \in {"exec as user", "set environment for user"})
               => /\ p.err.kind = "fail"
                  /\ ExitCode(p.err) # CodeSuccess
                  /\ p.buildResult = "none"
                  /\ p.buildIds = {}
                  /\ p.mdWrites = 0
            /\ (entry = "build" /\ p.pc = "exited" /\ (p.drops = 0 \/ p.envLoads = 0))
               => p.err.action \in {"exec as user", "set environment for user"}

C16_Witness ==
    \E d \in Procs :
        /\ entry = "build"
        /\ procs[d].pc = "exited"
        /\ procs[d].start = Root
        /\ procs[d].id = User
        /\ procs[d].drops = 1
        /\ procs[d].envLoads = 1
        /\ procs[d].buildIds = {User}
        /\ procs[d].mdWrites = 1

C18_EveryFailureIsClassified ==
    \A d \in Procs :
        (/\ ExecDispatched(procs[d])
         /\ procs[d].pc = "exited"
         /\ procs[d].err # Nil
         /\ procs[d].err # Panicked)
        => /\ procs[d].err.kind = "fail"
           /\ procs[d].err.code \in Codes
           /\ procs[d].err.action # ""

(* C19, as stated: a platform API that cannot be parsed, the empty one        *)
(* included, makes the invocation fail with a classified error before any     *)
(* stage runs, and creating the builder never panics.  createBuilder calls    *)
(* MustParse, after the two groups were verified, and the path of an empty    *)
(* stack group never parses the value: both violate it.                       *)
C19_UnparsablePlatformAPIFailsFirst ==
    \A d \in Procs :
        /\ procs[d].err # Panicked
        /\ (entry = "builder" /\ ~NewVersion(platformAPI).ok)
           => /\ NoBuildStep(d)
              /\ procs[d].pc \notin {"stackBuild", "buildAsSubProcess", "waiting"}
              /\ procs[d].pc = "exited" => procs[d].err.kind = "fail"

(* C20, as stated: whatever another process does to the stack-group file      *)
(* between the load of Privileges and the load of Exec, a privileged process  *)
(* whose Privileges check passed takes the stack-build path in Exec and never *)
(* goes on to run or delegate the build with an empty stack group.  Exec      *)
(* acts on its own load, and so violates it.                                  *)
C20_GuardAndExecAgree ==
    \A d \in Procs :
        (IsPrivileged(procs[d].start) /\ ExecDispatched(procs[d]))
        => /\ Len(procs[d].stackGroup) > 0
           /\ procs[d].pc # "buildAsSubProcess" \/ procs[d].stackResult = "ok"
           /\ procs[d].delegations > 0 => procs[d].stackResult = "ok"

====
